---- MODULE Spec2Model ----
(***************************************************************************)
(* State machine of webapp/state_dao.py (class StateDao): the buffered     *)
(* log writer with its capacity guard, the client clock registry, the      *)
(* snapshot files of the registry, cut_log and reset.                      *)
(*                                                                         *)
(* Python values: an optional value is a sequence, None == <<>> and a      *)
(* number n is <<n>>, so that None is distinct from every number.  A log   *)
(* entry is the number of the append_to_log call that handed it in         *)
(* (1, 2, ...); the lines found in log/log at construction are the         *)
(* negative numbers -1, -2, ...  The source is Python 2 (web_api.py uses   *)
(* error.message), where None orders below every number.                   *)
(*                                                                         *)
(* Time: time_since_last_flush is time.time() - self._last_flush as it     *)
(* would be read now, in clock ticks.  The clock does not need to advance  *)
(* between two readings, so the value 0 is possible at a flush.            *)
(* clock_second is time.time() in whole seconds, the resolution of the     *)
(* names of the backup files.                                              *)
(*                                                                         *)
(* Files: log/log is (log_exists, log_file); backups maps the name of      *)
(* every other file of the log directory to its lines; state_files maps    *)
(* the name of every file of the state directory to its JSON text.         *)
(*                                                                         *)
(* Scheduling: every interface method is one step.  Only in                *)
(* SpecInterleaved is flush_log split at its file writes: writers holds    *)
(* the calls suspended there, and other calls run between their writes.    *)
(* The events of web_api.py (SpecEvents, SpecSession) give an entry the    *)
(* time that _create_client_time returns.                                  *)
(***************************************************************************)
EXTENDS Integers, Sequences, FiniteSets, TLC

None == <<>>

Some(n) == <<n>>

Val(x) == x[1]

\* ---- bounds ----
MaxAppends == 4

MaxInitLog == 2

MaxEntriesTotal == 3

MaxEntriesInState == 2

MaxFlushFrequency == 2

MaxElapsed == MaxFlushFrequency + 1

MaxCounter == MaxInitLog + MaxEntriesTotal + MaxAppends

MaxClientTime == 3

\* The cut and reset runs: lines of log/log at the start, entries appended,
\* seconds the clock goes through.
MaxCutLog == 2

MaxCutAppends == 1

MaxSecond == 1

\* The events the web API handles in one behaviour.
MaxEvents == 3

\* The largest forward jump of a client's time, in seconds of the clock
\* (random.randint(3600, 57600), scaled to the small clock).
MaxJump == 2

\* The flush_log calls that may be suspended in their write loop at once.
MaxWriters == 2

\* The identifiers the clients send; any string is accepted, also the name
\* of the file of the global minimum.
Clients == {"a", "b", "state"}

Times == 1..MaxClientTime

Optional(S) == {None} \cup {Some(n) : n \in S}

VARIABLES
    dao,                    \* the fields of the StateDao instance
    log_exists,             \* os.path.lexists("log/log")
    log_file,               \* the lines of log/log, <<>> while it does not exist
    time_since_last_flush,  \* time.time() - self._last_flush
    appended,               \* history: the entries handed to append_to_log
    init_log,               \* history: the lines of log/log at construction
    last_call,              \* history: the last interface method called
    raised,                 \* history: the exception that call ended with
    result,                 \* history: the value that call returned
    backups,                \* the files log/log_until_<time>: name -> lines
    state_files,            \* the files of the directory state: name -> content
    clock_second,           \* time.time(), in whole seconds
    logical_time,           \* the TIME_UNIX_FIELD of every log entry
    writers                 \* the flush_log calls suspended in their write loop

vars == <<dao, log_exists, log_file, time_since_last_flush,
          appended, init_log, last_call, raised, result,
          backups, state_files, clock_second, logical_time,
          writers>>

\* What the log writer and the registry calls leave alone.
maintenance == <<result, backups, state_files, clock_second, logical_time,
                writers>>

NoError == "none"

MaximumReachedError == "MaximumReachedError"

ZeroDivisionError == "ZeroDivisionError"

TypeError == "TypeError"

IndexError == "IndexError"

ValueError == "ValueError"

\* ---- StateDao.__init__ ----

\* The lines that are in log/log when the DAO is constructed.
OldLines(n) == [i \in 1..n |-> 0 - i]

\* count_log_lines(): the buffered entries plus the lines of the file.
count_log_lines(d, exists, file) ==
    LET log_line_count == Len(d.new_log_entries)
    IN  IF ~exists THEN log_line_count ELSE log_line_count + Len(file)

\* The instance after __init__ and __enter__, for one configuration and
\* one content of log/log.
NewDao(ff, mis, met, exists, file) ==
    LET d0 == [curr_min_time |-> None,
               client_times |-> <<>>,
               new_log_entries |-> <<>>,
               unique_log_file_names |-> <<>>,
               flush_frequency |-> ff,
               max_entries_in_state |-> mis,
               auto_flush |-> (ff # None \/ mis # None),
               current_total_entries |-> 0,
               max_entries_total |-> met]
    IN  [d0 EXCEPT !.current_total_entries = count_log_lines(d0, exists, file)]

\* ---- Capacity guard ----

\* Mutant of _maximum_reached: the comparison is strict.
maximum_reached_strict(d, include_state) ==
    IF d.max_entries_total = None THEN FALSE
    ELSE LET current_count == d.current_total_entries
                 + (IF include_state THEN Len(d.new_log_entries) ELSE 0)
         IN  current_count > Val(d.max_entries_total)

\* Mutant of _maximum_reached: the buffered entries are never counted.
maximum_reached_persisted_only(d, include_state) ==
    IF d.max_entries_total = None THEN FALSE
    ELSE d.current_total_entries >= Val(d.max_entries_total)

\* _maximum_reached(include_state)
maximum_reached(d, include_state) ==
    IF d.max_entries_total = None THEN FALSE
    ELSE LET current_count == d.current_total_entries
                 + (IF include_state THEN Len(d.new_log_entries) ELSE 0)
         IN  current_count >= Val(d.max_entries_total)

\* ---- flush_log ----

\* Mutant of flush_log: a refused flush drops the buffered entries.
flush_log_dropping(d, exists, file, elapsed) ==
    LET number_of_entries == Len(d.new_log_entries)
        unchanged == [dao |-> d, log_exists |-> exists, log_file |-> file,
                      elapsed |-> elapsed, raised |-> NoError]
    IN  IF number_of_entries = 0 THEN unchanged
        ELSE IF maximum_reached(d, FALSE)
             THEN [unchanged EXCEPT !.dao = [d EXCEPT !.new_log_entries = <<>>],
                                    !.raised = MaximumReachedError]
        ELSE LET counted == [d EXCEPT !.current_total_entries = @ + number_of_entries]
             IN  IF elapsed = 0
                 THEN [unchanged EXCEPT !.dao = counted, !.raised = ZeroDivisionError]
                 ELSE [dao |-> [counted EXCEPT !.new_log_entries = <<>>],
                       log_exists |-> TRUE,
                       log_file |-> file \o d.new_log_entries,
                       elapsed |-> 0,
                       raised |-> NoError]

\* Mutant of flush_log: _last_flush is not updated.
flush_log_keeping_last_flush(d, exists, file, elapsed) ==
    LET number_of_entries == Len(d.new_log_entries)
        unchanged == [dao |-> d, log_exists |-> exists, log_file |-> file,
                      elapsed |-> elapsed, raised |-> NoError]
    IN  IF number_of_entries = 0 THEN unchanged
        ELSE IF maximum_reached(d, FALSE)
             THEN [unchanged EXCEPT !.raised = MaximumReachedError]
        ELSE LET counted == [d EXCEPT !.current_total_entries = @ + number_of_entries]
             IN  IF elapsed = 0
                 THEN [unchanged EXCEPT !.dao = counted, !.raised = ZeroDivisionError]
                 ELSE [dao |-> [counted EXCEPT !.new_log_entries = <<>>],
                       log_exists |-> TRUE,
                       log_file |-> file \o d.new_log_entries,
                       elapsed |-> elapsed,
                       raised |-> NoError]

\* Mutant of flush_log: the capacity check before writing is missing.
flush_log_unguarded(d, exists, file, elapsed) ==
    LET number_of_entries == Len(d.new_log_entries)
        unchanged == [dao |-> d, log_exists |-> exists, log_file |-> file,
                      elapsed |-> elapsed, raised |-> NoError]
    IN  IF number_of_entries = 0 THEN unchanged
        ELSE LET counted == [d EXCEPT !.current_total_entries = @ + number_of_entries]
             IN  IF elapsed = 0
                 THEN [unchanged EXCEPT !.dao = counted, !.raised = ZeroDivisionError]
                 ELSE [dao |-> [counted EXCEPT !.new_log_entries = <<>>],
                       log_exists |-> TRUE,
                       log_file |-> file \o d.new_log_entries,
                       elapsed |-> 0,
                       raised |-> NoError]

\* The outcome of flush_log() called on instance d with file content
\* (exists, file) when the clock reads elapsed ticks after _last_flush:
\* the instance, the file, the elapsed time and the exception after it.
flush_log(d, exists, file, elapsed) ==
    LET number_of_entries == Len(d.new_log_entries)
        unchanged == [dao |-> d, log_exists |-> exists, log_file |-> file,
                      elapsed |-> elapsed, raised |-> NoError]
    IN  IF number_of_entries = 0 THEN unchanged
        ELSE IF maximum_reached(d, FALSE)
             THEN [unchanged EXCEPT !.raised = MaximumReachedError]
        ELSE LET counted == [d EXCEPT !.current_total_entries = @ + number_of_entries]
             IN  IF elapsed = 0
                 \* float(flushed_entry_count) / time_since_last_flush
                 THEN [unchanged EXCEPT !.dao = counted, !.raised = ZeroDivisionError]
                 ELSE [dao |-> [counted EXCEPT !.new_log_entries = <<>>],
                       log_exists |-> TRUE,
                       log_file |-> file \o d.new_log_entries,
                       elapsed |-> 0,
                       raised |-> NoError]

\* ---- append_to_log ----

\* Mutant of do_auto_flush: both conditions are needed.
do_auto_flush_both_needed(d, elapsed) ==
    /\ (d.max_entries_in_state # None
        /\ Len(d.new_log_entries) >= Val(d.max_entries_in_state))
    /\ (d.flush_frequency # None
        /\ elapsed >= Val(d.flush_frequency))

do_auto_flush(d, elapsed) ==
    \/ (d.max_entries_in_state # None
        /\ Len(d.new_log_entries) >= Val(d.max_entries_in_state))
    \/ (d.flush_frequency # None
        /\ elapsed >= Val(d.flush_frequency))

\* Mutant of append_to_log: the capacity check runs before the entry is
\* put into the buffer.
append_to_log_check_first(d, exists, file, elapsed, log_entry) ==
    LET d1 == [d EXCEPT !.new_log_entries = Append(@, log_entry)]
        returned == [dao |-> d1, log_exists |-> exists, log_file |-> file,
                     elapsed |-> elapsed, raised |-> NoError]
    IN  IF maximum_reached(d, TRUE) THEN flush_log(d1, exists, file, elapsed)
        ELSE IF ~d1.auto_flush THEN returned
        ELSE IF do_auto_flush(d1, elapsed) THEN flush_log(d1, exists, file, elapsed)
        ELSE returned

\* Mutant of append_to_log: without a flush policy the call does not
\* return early, it flushes.
append_to_log_always_flush(d, exists, file, elapsed, log_entry) ==
    LET d1 == [d EXCEPT !.new_log_entries = Append(@, log_entry)]
        returned == [dao |-> d1, log_exists |-> exists, log_file |-> file,
                     elapsed |-> elapsed, raised |-> NoError]
    IN  IF maximum_reached(d1, TRUE) THEN flush_log(d1, exists, file, elapsed)
        ELSE IF ~d1.auto_flush THEN flush_log(d1, exists, file, elapsed)
        ELSE IF do_auto_flush(d1, elapsed) THEN flush_log(d1, exists, file, elapsed)
        ELSE returned

append_to_log(d, exists, file, elapsed, log_entry) ==
    LET d1 == [d EXCEPT !.new_log_entries = Append(@, log_entry)]
        returned == [dao |-> d1, log_exists |-> exists, log_file |-> file,
                     elapsed |-> elapsed, raised |-> NoError]
    IN  IF maximum_reached(d1, TRUE) THEN flush_log(d1, exists, file, elapsed)
        ELSE IF ~d1.auto_flush THEN returned
        ELSE IF do_auto_flush(d1, elapsed) THEN flush_log(d1, exists, file, elapsed)
        ELSE returned

\* ---- the state machine of the log writer ----

Configurations ==
    [flush_frequency : Optional(1..MaxFlushFrequency),
     max_entries_in_state : Optional(1..MaxEntriesInState),
     max_entries_total : Optional(1..MaxEntriesTotal)]

\* No backup file, an empty state directory, no value returned yet.
NoMaintenanceYet ==
    /\ result = None
    /\ backups = <<>>
    /\ state_files = <<>>
    /\ clock_second = 0
    /\ writers = <<>>
    /\ logical_time = <<>>

Init ==
    /\ \E cfg \in Configurations, n \in 0..MaxInitLog, exists \in BOOLEAN :
          /\ (~exists => n = 0)
          /\ log_exists = exists
          /\ log_file = OldLines(n)
          /\ init_log = OldLines(n)
          /\ dao = NewDao(cfg.flush_frequency, cfg.max_entries_in_state,
                          cfg.max_entries_total, exists, OldLines(n))
    /\ time_since_last_flush = 0
    /\ appended = <<>>
    /\ last_call = "__init__"
    /\ raised = NoError
    /\ NoMaintenanceYet

\* The state after an interface call with outcome r.  Without a cap the
\* counter grows with every flush that fails in the division, so the runs
\* are cut at MaxCounter; with a cap the counter stays below MaxCounter by
\* itself, because flush_log is refused once the counter reaches the cap.
Returns(r, call) ==
    /\ r.dao.current_total_entries <= MaxCounter
    /\ dao' = r.dao
    /\ log_exists' = r.log_exists
    /\ log_file' = r.log_file
    /\ time_since_last_flush' = r.elapsed
    /\ raised' = r.raised
    /\ last_call' = call

AppendToLog ==
    /\ Len(appended) < MaxAppends
    /\ LET log_entry == Len(appended) + 1
       IN  /\ appended' = Append(appended, log_entry)
           /\ Returns(append_to_log(dao, log_exists, log_file,
                                    time_since_last_flush, log_entry),
                      "append_to_log")
    /\ UNCHANGED <<init_log, maintenance>>

FlushLog ==
    /\ Returns(flush_log(dao, log_exists, log_file, time_since_last_flush),
               "flush_log")
    /\ UNCHANGED <<appended, init_log, maintenance>>

\* The clock advances by one tick.
Tick ==
    /\ time_since_last_flush < MaxElapsed
    /\ time_since_last_flush' = time_since_last_flush + 1
    /\ UNCHANGED <<dao, log_exists, log_file, appended, init_log, last_call,
                   raised, maintenance>>

Next == AppendToLog \/ FlushLog \/ Tick

Spec == Init /\ [][Next]_vars

\* ---- Client clock registry ----

\* min() of Python 2 over a non-empty collection of optional numbers:
\* None compares below every number.
py2_min(values) ==
    IF None \in values THEN None
    ELSE Some(CHOOSE m \in {Val(v) : v \in values} :
                  \A v \in values : m <= Val(v))

\* self._client_times[identifier] = new_time
dict_set(dict, key, value) ==
    [k \in DOMAIN dict \cup {key} |-> IF k = key THEN value ELSE dict[k]]

dict_values(dict) == {dict[k] : k \in DOMAIN dict}

get_current_min_time(d) == d.curr_min_time

set_client_time(d, identifier, new_time) ==
    LET d1 == [d EXCEPT !.client_times = dict_set(@, identifier, new_time)]
    IN  IF d1.curr_min_time = None
        THEN [d1 EXCEPT !.curr_min_time = new_time]
        ELSE [d1 EXCEPT !.curr_min_time = py2_min(dict_values(d1.client_times))]

\* get_client_time(identifier): the instance after the call and the value
\* returned.
get_client_time(d, identifier) ==
    IF identifier \in DOMAIN d.client_times
    THEN [dao |-> d, result |-> d.client_times[identifier]]
    ELSE [dao |-> set_client_time(d, identifier, None), result |-> None]

\* First startup: no log file and an empty state directory.
InitRegistry ==
    /\ dao = NewDao(None, None, None, FALSE, <<>>)
    /\ log_exists = FALSE
    /\ log_file = <<>>
    /\ init_log = <<>>
    /\ time_since_last_flush = 0
    /\ appended = <<>>
    /\ last_call = "__init__"
    /\ raised = NoError
    /\ NoMaintenanceYet

GetClientTime ==
    /\ \E identifier \in Clients :
          dao' = get_client_time(dao, identifier).dao
    /\ last_call' = "get_client_time"
    /\ UNCHANGED <<log_exists, log_file, time_since_last_flush, appended,
                   init_log, raised, maintenance>>

SetClientTime ==
    /\ \E identifier \in Clients, new_time \in Times :
          dao' = set_client_time(dao, identifier, Some(new_time))
    /\ last_call' = "set_client_time"
    /\ UNCHANGED <<log_exists, log_file, time_since_last_flush, appended,
                   init_log, raised, maintenance>>

NextRegistry == GetClientTime \/ SetClientTime

SpecRegistry == InitRegistry /\ [][NextRegistry]_vars

\* The minimum over the defined client times, None when there is none.
MinDefinedTime(d) ==
    LET defined == {v \in dict_values(d.client_times) : v # None}
    IN  IF defined = {} THEN None ELSE py2_min(defined)

\* C2: get_current_min_time() equals the minimum over the defined client
\* times and is None exactly when no client has a defined time.
C2_MinTimeIsMinOfDefined ==
    get_current_min_time(dao) = MinDefinedTime(dao)

\* ---- Backup file names ----

\* _create_log_file_name_from_time: log/log_until_ and the local time,
\* written to the second.
create_log_file_name_from_time(time_unix) == <<"log/log_until", time_unix>>

InList(x, list) == \E i \in DOMAIN list : list[i] = x

\* _create_unique_log_file_path() when the clock reads now and the log
\* directory holds files: the instance, the name returned and the exception
\* after it.  When the name exists on disk or was handed out before,
\* time_unix += datetime.timedelta(seconds=1) adds a timedelta to a float.
create_unique_log_file_path(d, files, now) ==
    LET time_unix == now
        new_file_name == create_log_file_name_from_time(time_unix)
    IN  IF new_file_name \in DOMAIN files
           \/ InList(new_file_name, d.unique_log_file_names)
        THEN [dao |-> d, result |-> None, raised |-> TypeError]
        ELSE [dao |-> [d EXCEPT !.unique_log_file_names =
                                    Append(@, new_file_name)],
              result |-> new_file_name,
              raised |-> NoError]

\* ---- cut_log ----

\* entry[LogEntry.TIME_UNIX_FIELD] <= self.get_current_min_time() in
\* Python 2: no number is below or equal to None.
py2_le(number, optional) ==
    IF optional = None THEN FALSE ELSE number <= Val(optional)

\* The while loop of cut_log on the lines of the copy: the lines that are
\* left and the exception it ends with.  log_lines[current_index] on the
\* emptied list is an IndexError.
RECURSIVE cut_lines(_, _, _)
cut_lines(log_lines, time_unix, min_time) ==
    IF log_lines = <<>>
    THEN [log_lines |-> log_lines, raised |-> IndexError]
    ELSE LET current_index == Len(log_lines)
             entry == log_lines[current_index]
         IN  IF py2_le(time_unix[entry], min_time)
             THEN [log_lines |-> log_lines, raised |-> NoError]
             ELSE cut_lines(SubSeq(log_lines, 1, current_index - 1),
                            time_unix, min_time)

\* Mutant of cut_log: the live log file is cut, not only the copy.
cut_log_cutting_live_log(d, exists, file, files, elapsed, now, time_unix) ==
    LET returned == [dao |-> d, log_exists |-> exists, log_file |-> file,
                     elapsed |-> elapsed, raised |-> NoError,
                     backups |-> files, result |-> None]
        named == create_unique_log_file_path(d, files, now)
        flushed == flush_log(named.dao, exists, file, elapsed)
        after_flush == [dao |-> flushed.dao, log_exists |-> flushed.log_exists,
                        log_file |-> flushed.log_file,
                        elapsed |-> flushed.elapsed, raised |-> flushed.raised,
                        backups |-> files, result |-> None]
        new_file_path == named.result
        copied == dict_set(files, new_file_path, flushed.log_file)
        log_length == Len(flushed.log_file)
        cut == cut_lines(flushed.log_file, time_unix,
                         get_current_min_time(flushed.dao))
    IN  IF ~exists THEN returned
        ELSE IF named.raised # NoError
             THEN [returned EXCEPT !.raised = named.raised]
        ELSE IF flushed.raised # NoError THEN after_flush
        ELSE IF cut.raised # NoError
             THEN [after_flush EXCEPT !.backups = copied, !.raised = cut.raised]
        ELSE [after_flush EXCEPT
                !.log_file = cut.log_lines,
                !.backups = dict_set(files, new_file_path, cut.log_lines),
                !.result = <<log_length - Len(cut.log_lines), log_length,
                             new_file_path>>]

\* Mutant of cut_log: the log is copied without the flush.
cut_log_without_flush(d, exists, file, files, elapsed, now, time_unix) ==
    LET returned == [dao |-> d, log_exists |-> exists, log_file |-> file,
                     elapsed |-> elapsed, raised |-> NoError,
                     backups |-> files, result |-> None]
        named == create_unique_log_file_path(d, files, now)
        not_flushed == [returned EXCEPT !.dao = named.dao]
        new_file_path == named.result
        copied == dict_set(files, new_file_path, file)
        log_length == Len(file)
        cut == cut_lines(file, time_unix, get_current_min_time(named.dao))
    IN  IF ~exists THEN returned
        ELSE IF named.raised # NoError
             THEN [returned EXCEPT !.raised = named.raised]
        ELSE IF cut.raised # NoError
             THEN [not_flushed EXCEPT !.backups = copied, !.raised = cut.raised]
        ELSE [not_flushed EXCEPT
                !.backups = dict_set(files, new_file_path, cut.log_lines),
                !.result = <<log_length - Len(cut.log_lines), log_length,
                             new_file_path>>]

\* cut_log() when the clock reads now (elapsed ticks after _last_flush) and
\* the log directory holds log/log (exists, file) and the backup files:
\* what is left of all of them, the value returned and the exception.
cut_log(d, exists, file, files, elapsed, now, time_unix) ==
    LET returned == [dao |-> d, log_exists |-> exists, log_file |-> file,
                     elapsed |-> elapsed, raised |-> NoError,
                     backups |-> files, result |-> None]
        named == create_unique_log_file_path(d, files, now)
        flushed == flush_log(named.dao, exists, file, elapsed)
        after_flush == [dao |-> flushed.dao, log_exists |-> flushed.log_exists,
                        log_file |-> flushed.log_file,
                        elapsed |-> flushed.elapsed, raised |-> flushed.raised,
                        backups |-> files, result |-> None]
        new_file_path == named.result
        \* shutil.copyfile(self._log_file_path, new_file_path)
        copied == dict_set(files, new_file_path, flushed.log_file)
        log_length == Len(flushed.log_file)
        cut == cut_lines(flushed.log_file, time_unix,
                         get_current_min_time(flushed.dao))
    IN  IF ~exists THEN returned
        ELSE IF named.raised # NoError
             THEN [returned EXCEPT !.raised = named.raised]
        ELSE IF flushed.raised # NoError THEN after_flush
        ELSE IF cut.raised # NoError
             THEN [after_flush EXCEPT !.backups = copied, !.raised = cut.raised]
        ELSE [after_flush EXCEPT
                !.backups = dict_set(files, new_file_path, cut.log_lines),
                !.result = <<log_length - Len(cut.log_lines), log_length,
                             new_file_path>>]

\* ---- Snapshot files ----

state_file_name == "state"

\* json.dumps and json.loads of a time or None.
json_dumps(value) ==
    IF value = None THEN <<"null">> ELSE <<"number", Val(value)>>

json_loads(text) ==
    IF Len(text) = 1 THEN None ELSE Some(text[2])

\* The files of the state directory after the writes of
\* _write_all_to_files: the file state, then one file per key of
\* _client_times, each under the key as its name.
written_state_files(d, files) ==
    LET with_min == dict_set(files, state_file_name, json_dumps(d.curr_min_time))
    IN  [name \in DOMAIN with_min \cup DOMAIN d.client_times |->
            IF name \in DOMAIN d.client_times
            THEN json_dumps(d.client_times[name])
            ELSE with_min[name]]

\* _load_state_from_file(file_name)
load_state_from_file(d, files, file_name) ==
    LET state_from_file == json_loads(files[file_name])
    IN  IF file_name = state_file_name
        THEN [d EXCEPT !.curr_min_time = state_from_file]
        ELSE [d EXCEPT !.client_times = dict_set(@, file_name, state_from_file)]

\* The loop of __enter__ over the files of the state directory.
RECURSIVE load_files(_, _, _)
load_files(d, files, names) ==
    IF names = {} THEN d
    ELSE LET file_name == CHOOSE n \in names : TRUE
         IN  load_files(load_state_from_file(d, files, file_name), files,
                        names \ {file_name})

\* __exit__: _write_all_to_files, which ends with flush_log().
Exit ==
    /\ state_files' = written_state_files(dao, state_files)
    /\ Returns(flush_log(dao, log_exists, log_file, time_since_last_flush),
               "__exit__")
    /\ UNCHANGED <<appended, init_log, result, backups, clock_second, writers,
                   logical_time>>

\* The next start of the server after __exit__: a new instance with the
\* same configuration, __init__ and __enter__.
Enter ==
    /\ last_call = "__exit__"
    /\ dao' = load_files(NewDao(dao.flush_frequency, dao.max_entries_in_state,
                                dao.max_entries_total, log_exists, log_file),
                         state_files, DOMAIN state_files)
    /\ time_since_last_flush' = 0
    /\ init_log' = log_file
    /\ appended' = <<>>
    /\ last_call' = "__enter__"
    /\ raised' = NoError
    /\ UNCHANGED <<log_exists, log_file, state_files, result, backups,
                   clock_second, writers, logical_time>>

NextSnapshot == GetClientTime \/ SetClientTime \/ Exit \/ Enter

SpecSnapshot == InitRegistry /\ [][NextSnapshot]_vars

\* ---- reset ----

\* _clear_internal_state()
clear_internal_state(d) ==
    [d EXCEPT !.curr_min_time = None,
              !.client_times = <<>>,
              !.new_log_entries = <<>>]

\* _delete_state_files(): the file state and the file of every key of
\* _client_times are removed where they exist.
delete_state_files(d, files) ==
    [name \in DOMAIN files \ ({state_file_name} \cup DOMAIN d.client_times)
        |-> files[name]]

\* Mutant of reset: the log is renamed and the buffer cleared without the
\* flush.
reset_without_flush(d, exists, file, log_files, files, elapsed, now) ==
    LET not_flushed == [dao |-> d, log_exists |-> exists, log_file |-> file,
                        elapsed |-> elapsed, raised |-> NoError,
                        backups |-> log_files, state_files |-> files,
                        result |-> None]
        named == create_unique_log_file_path(d, log_files, now)
        renamed == IF ~exists
                   THEN [not_flushed EXCEPT !.result = "File doesn't exist"]
                   ELSE [not_flushed EXCEPT
                           !.dao = named.dao,
                           !.raised = named.raised,
                           !.log_exists = (named.raised # NoError),
                           !.log_file = IF named.raised # NoError
                                        THEN file ELSE <<>>,
                           !.backups = IF named.raised # NoError THEN log_files
                                       ELSE dict_set(log_files, named.result,
                                                     file),
                           !.result = "File was renamed successfully"]
    IN  IF renamed.raised # NoError
        THEN [renamed EXCEPT !.result = None]
        ELSE [renamed EXCEPT
                !.dao = clear_internal_state(renamed.dao),
                !.state_files = delete_state_files(renamed.dao, files),
                !.result = <<renamed.result, "Cleared successfully">>]

\* Mutant of reset: _rename_log_file renames without looking whether
\* log/log exists.
reset_without_exists_check(d, exists, file, log_files, files, elapsed, now) ==
    LET flushed == flush_log(d, exists, file, elapsed)
        after_flush == [dao |-> flushed.dao, log_exists |-> flushed.log_exists,
                        log_file |-> flushed.log_file,
                        elapsed |-> flushed.elapsed, raised |-> flushed.raised,
                        backups |-> log_files, state_files |-> files,
                        result |-> None]
        \* _rename_log_file()
        named == create_unique_log_file_path(flushed.dao, log_files, now)
        renamed == IF ~flushed.log_exists
                   THEN [after_flush EXCEPT !.raised = "OSError"]
                   ELSE [after_flush EXCEPT
                           !.dao = named.dao,
                           !.raised = named.raised,
                           !.log_exists = (named.raised # NoError),
                           !.log_file = IF named.raised # NoError
                                        THEN flushed.log_file ELSE <<>>,
                           !.backups = IF named.raised # NoError THEN log_files
                                       ELSE dict_set(log_files, named.result,
                                                     flushed.log_file),
                           !.result = "File was renamed successfully"]
    IN  IF flushed.raised # NoError THEN after_flush
        ELSE IF renamed.raised # NoError
             THEN [renamed EXCEPT !.result = None]
        ELSE [renamed EXCEPT
                !.dao = clear_internal_state(renamed.dao),
                !.state_files = delete_state_files(renamed.dao, files),
                !.result = <<renamed.result, "Cleared successfully">>]

\* reset() when the clock reads now (elapsed ticks after _last_flush), the
\* log directory holds log/log (exists, file) and log_files, and the state
\* directory holds files: what is left of all of them, the status returned
\* and the exception.
reset(d, exists, file, log_files, files, elapsed, now) ==
    LET flushed == flush_log(d, exists, file, elapsed)
        after_flush == [dao |-> flushed.dao, log_exists |-> flushed.log_exists,
                        log_file |-> flushed.log_file,
                        elapsed |-> flushed.elapsed, raised |-> flushed.raised,
                        backups |-> log_files, state_files |-> files,
                        result |-> None]
        \* _rename_log_file()
        named == create_unique_log_file_path(flushed.dao, log_files, now)
        renamed == IF ~flushed.log_exists
                   THEN [after_flush EXCEPT !.result = "File doesn't exist"]
                   ELSE [after_flush EXCEPT
                           !.dao = named.dao,
                           !.raised = named.raised,
                           !.log_exists = (named.raised # NoError),
                           !.log_file = IF named.raised # NoError
                                        THEN flushed.log_file ELSE <<>>,
                           !.backups = IF named.raised # NoError THEN log_files
                                       ELSE dict_set(log_files, named.result,
                                                     flushed.log_file),
                           !.result = "File was renamed successfully"]
    IN  IF flushed.raised # NoError THEN after_flush
        ELSE IF renamed.raised # NoError
             THEN [renamed EXCEPT !.result = None]
        ELSE [renamed EXCEPT
                !.dao = clear_internal_state(renamed.dao),
                !.state_files = delete_state_files(renamed.dao, files),
                !.result = <<renamed.result, "Cleared successfully">>]

\* cut_log_io(): the message for the value that cut_log returned.
cut_log_io(cut_result) ==
    IF cut_result = None THEN "Log is empty"
    ELSE <<"Process finished! Removed", cut_result[1], "from the original",
           cut_result[2], "lines. Saved file to:", cut_result[3]>>

\* ---- the state machine of the log cut ----

\* No cap, and the cap that every line of log/log reaches.
CutCaps == {None, Some(1)}

\* A start of the server on a log of earlier sessions, whose lines carry
\* any times, and a registry loaded from the snapshot of one client that
\* the earlier session left at its __exit__.
InitCut ==
    /\ \E met \in CutCaps, n \in 0..MaxCutLog,
          exists \in BOOLEAN, min_time \in Optional(Times) :
          /\ (~exists => n = 0)
          /\ log_exists = exists
          /\ log_file = OldLines(n)
          /\ init_log = OldLines(n)
          /\ \E times \in [{0 - i : i \in 1..n} -> Times] : logical_time = times
          /\ state_files =
                IF min_time = None THEN <<>>
                ELSE written_state_files(
                         [curr_min_time |-> min_time,
                          client_times |-> [c \in {"a"} |-> min_time]], <<>>)
          /\ dao = load_files(NewDao(None, None, met, exists, OldLines(n)),
                              state_files, DOMAIN state_files)
    /\ time_since_last_flush = 0
    /\ appended = <<>>
    /\ last_call = "__init__"
    /\ raised = NoError
    /\ result = None
    /\ backups = <<>>
    /\ clock_second = 0
    /\ writers = <<>>

\* append_to_log of an entry that carries a client's time.
AppendTimedEntry ==
    /\ Len(appended) < MaxCutAppends
    /\ LET log_entry == Len(appended) + 1
       IN  /\ appended' = Append(appended, log_entry)
           /\ \E time_unix \in Times :
                 logical_time' = dict_set(logical_time, log_entry, time_unix)
           /\ Returns(append_to_log(dao, log_exists, log_file,
                                    time_since_last_flush, log_entry),
                      "append_to_log")
    /\ UNCHANGED <<init_log, result, backups, state_files, clock_second, writers>>

CutLog ==
    /\ LET r == cut_log(dao, log_exists, log_file, backups,
                        time_since_last_flush, clock_second, logical_time)
       IN  /\ Returns(r, "cut_log")
           /\ backups' = r.backups
           /\ result' = r.result
    /\ UNCHANGED <<appended, init_log, state_files, clock_second, writers, logical_time>>

CreateUniqueLogFilePath ==
    /\ LET r == create_unique_log_file_path(dao, backups, clock_second)
       IN  /\ dao' = r.dao
           /\ result' = r.result
           /\ raised' = r.raised
    /\ last_call' = "create_unique_log_file_path"
    /\ UNCHANGED <<log_exists, log_file, time_since_last_flush, appended,
                   init_log, backups, state_files, clock_second, writers, logical_time>>

\* The clock reaches the next second.
NextSecond ==
    /\ clock_second < MaxSecond
    /\ clock_second' = clock_second + 1
    /\ time_since_last_flush' = IF time_since_last_flush < MaxElapsed
                                THEN time_since_last_flush + 1
                                ELSE time_since_last_flush
    /\ UNCHANGED <<dao, log_exists, log_file, appended, init_log, last_call,
                   raised, result, backups, state_files, logical_time,
                   writers>>

\* ---- the state machine of reset ----

\* The registries of an earlier session: no call yet, one client with a
\* time, and a second client that has asked for its time.
EarlierRegistries ==
    LET first == NewDao(None, None, None, FALSE, <<>>)
        one(t) == set_client_time(get_client_time(first, "a").dao, "a", Some(t))
    IN  {first} \cup {one(t) : t \in Times}
                \cup {get_client_time(one(t), "b").dao : t \in Times}

\* A start of the server: on empty directories, or on the log and on the
\* snapshot that an earlier session left at its __exit__.
InitReset ==
    /\ \E met \in CutCaps, n \in 0..MaxCutLog, exists \in BOOLEAN,
          earlier \in EarlierRegistries :
          /\ (~exists => n = 0)
          /\ log_exists = exists
          /\ log_file = OldLines(n)
          /\ init_log = OldLines(n)
          /\ state_files = IF earlier.client_times = <<>> THEN <<>>
                           ELSE written_state_files(earlier, <<>>)
          /\ dao = load_files(NewDao(None, None, met, exists, OldLines(n)),
                              state_files, DOMAIN state_files)
    /\ time_since_last_flush = 0
    /\ appended = <<>>
    /\ last_call = "__init__"
    /\ raised = NoError
    /\ result = None
    /\ backups = <<>>
    /\ clock_second = 0
    /\ writers = <<>>
    /\ logical_time = <<>>

Reset ==
    /\ LET r == reset(dao, log_exists, log_file, backups, state_files,
                      time_since_last_flush, clock_second)
       IN  /\ Returns(r, "reset")
           /\ backups' = r.backups
           /\ state_files' = r.state_files
           /\ result' = r.result
    /\ UNCHANGED <<appended, init_log, clock_second, writers, logical_time>>

NextReset ==
    \/ AppendToLog
    \/ NextSecond
    \/ CreateUniqueLogFilePath
    \/ Reset

SpecReset == InitReset /\ [][NextReset]_vars

NextCut ==
    \/ AppendTimedEntry
    \/ NextSecond
    \/ CutLog
    \/ CreateUniqueLogFilePath

SpecCut == InitCut /\ [][NextCut]_vars

\* ---- the state machine of a server without log file ----

\* A start of the server when log/log does not exist.
InitMissingLog == InitCut /\ ~log_exists

NextMissingLog ==
    \/ AppendTimedEntry
    \/ NextSecond
    \/ CutLog
    \/ Reset

SpecMissingLog == InitMissingLog /\ [][NextMissingLog]_vars

\* ---- Construction ----

\* StateDao._INSTANCE = None: no instance is registered in the process.
NoInstance == [instance |-> "None"]

\* The values a caller may pass for one argument of the constructor.
Arguments(max) == Optional((0 - 1)..max)

non_positive(args) == \E x \in args : x # None /\ Val(x) <= 0

\* Mutant of __init__: the instance is registered before the arguments are
\* looked at.
construct_registering_first(instance, ff, mis, met, exists, file) ==
    IF instance # NoInstance
    THEN [dao |-> instance, raised |-> ValueError]
    ELSE IF non_positive({ff, mis, met})
         THEN [dao |-> NewDao(ff, mis, met, exists, file), raised |-> ValueError]
    ELSE [dao |-> NewDao(ff, mis, met, exists, file), raised |-> NoError]

\* Mutant of __init__: the check of _INSTANCE is missing.
construct_without_singleton_check(instance, ff, mis, met, exists, file) ==
    IF non_positive({ff, mis, met})
    THEN [dao |-> instance, raised |-> ValueError]
    ELSE [dao |-> NewDao(ff, mis, met, exists, file), raised |-> NoError]

\* StateDao(verbose, flush_frequency, max_entries_in_state,
\* max_entries_total) while _INSTANCE is instance: the instance that is
\* registered after the call and the exception.
construct(instance, ff, mis, met, exists, file) ==
    IF instance # NoInstance
    THEN [dao |-> instance, raised |-> ValueError]
    ELSE IF non_positive({ff, mis, met})
         THEN [dao |-> instance, raised |-> ValueError]
    ELSE [dao |-> NewDao(ff, mis, met, exists, file), raised |-> NoError]

\* The start of the process: no instance yet, any log of earlier sessions.
InitConstruct ==
    /\ dao = NoInstance
    /\ \E n \in 0..MaxInitLog, exists \in BOOLEAN :
          /\ (~exists => n = 0)
          /\ log_exists = exists
          /\ log_file = OldLines(n)
          /\ init_log = OldLines(n)
    /\ time_since_last_flush = 0
    /\ appended = <<>>
    /\ last_call = "start"
    /\ raised = NoError
    /\ NoMaintenanceYet

Construct ==
    /\ \E ff \in Arguments(MaxFlushFrequency),
          mis \in Arguments(MaxEntriesInState),
          met \in Arguments(MaxEntriesTotal) :
          LET r == construct(dao, ff, mis, met, log_exists, log_file)
          IN  /\ dao' = r.dao
              /\ raised' = r.raised
              \* self._last_flush = time.time()
              /\ time_since_last_flush' = IF r.raised = NoError THEN 0
                                          ELSE time_since_last_flush
    /\ last_call' = "__init__"
    /\ UNCHANGED <<log_exists, log_file, appended, init_log, maintenance>>

\* append_to_log on the registered instance.
AppendToInstance == dao # NoInstance /\ AppendToLog

NextConstruct == Construct \/ AppendToInstance \/ Tick

SpecConstruct == InitConstruct /\ [][NextConstruct]_vars

\* ---- Web API: the time of a client's log entry ----

\* random.choice([client_time] * 19 + [client_time + random.randint(...)]):
\* the seconds added to the client's time, 0 for the nineteen plain copies.
TimeChoices == {0} \cup (1..MaxJump)

\* _create_client_time(identifier): the instance after the call and the time
\* returned.  time_now is time.time(), choice the outcome of random.choice.
create_client_time(d, identifier, time_now, choice) ==
    LET g == get_client_time(d, identifier)
    IN  IF g.result = None
        THEN [dao    |-> set_client_time(g.dao, identifier, Some(time_now)),
              result |-> time_now]
        ELSE LET time_choice == Val(g.result) + choice
             IN  [dao    |-> set_client_time(g.dao, identifier,
                                             Some(time_choice)),
                  result |-> time_choice]

\* A POST handler: _create_base_log_entry(vin) gives the entry the client's
\* time, _append_and_detect hands the entry to append_to_log.
LogEvent ==
    /\ Len(appended) < MaxEvents
    /\ \E vin \in Clients, choice \in TimeChoices :
          LET c         == create_client_time(dao, vin, clock_second, choice)
              log_entry == Len(appended) + 1
          IN  /\ appended' = Append(appended, log_entry)
              /\ logical_time' = dict_set(logical_time, log_entry, c.result)
              /\ Returns(append_to_log(c.dao, log_exists, log_file,
                                       time_since_last_flush, log_entry),
                         "append_to_log")
    /\ UNCHANGED <<init_log, result, backups, state_files, clock_second, writers>>

\* minimum_time = DAO.get_current_min_time(), as the cut-log handler reads it.
GetCurrentMinTime ==
    /\ result' = get_current_min_time(dao)
    /\ last_call' = "get_current_min_time"
    /\ UNCHANGED <<dao, log_exists, log_file, time_since_last_flush, appended,
                   init_log, raised, backups, state_files, clock_second, writers,
                   logical_time>>

NextEvents == LogEvent \/ GetCurrentMinTime \/ NextSecond

SpecEvents == InitRegistry /\ [][NextEvents]_vars

\* A session of the server: events arrive, the clock advances, and the
\* instance is left through __exit__.
NextSession == LogEvent \/ NextSecond \/ Exit

SpecSession == InitRegistry /\ [][NextSession]_vars

\* ---- flush_log interleaved at its file writes ----

\* flush_log() up to its first log_file.write, where the call is suspended:
\* the checks, the counter, the division, open(..., "a"), and the first
\* pop(0) with its write.  writer is the suspended call: the iterations of
\* range(0, number_of_entries) still to run and its time_now.  A write
\* reaches log/log when it is issued.
flush_log_begin(d, exists, file, elapsed, now) ==
    LET number_of_entries == Len(d.new_log_entries)
        ended == [dao |-> d, log_exists |-> exists, log_file |-> file,
                  raised |-> NoError, suspended |-> FALSE,
                  writer |-> [remaining |-> 0, time_now |-> now]]
    IN  IF number_of_entries = 0 THEN ended
        ELSE IF maximum_reached(d, FALSE)
             THEN [ended EXCEPT !.raised = MaximumReachedError]
        ELSE LET counted == [d EXCEPT !.current_total_entries =
                                          @ + number_of_entries]
             IN  IF elapsed = 0
                 THEN [ended EXCEPT !.dao = counted,
                                    !.raised = ZeroDivisionError]
                 ELSE [dao |-> [counted EXCEPT !.new_log_entries = Tail(@)],
                       log_exists |-> TRUE,
                       log_file |-> Append(file, Head(d.new_log_entries)),
                       raised |-> NoError,
                       suspended |-> TRUE,
                       writer |-> [remaining |-> number_of_entries - 1,
                                   time_now |-> now]]

\* The suspended call w runs on to its next write or to its end:
\* self._new_log_entries.pop(0) on the emptied list is an IndexError, the
\* end of the loop reaches self._last_flush = time_now.
flush_log_resume(d, file, elapsed, now, w) ==
    IF w.remaining = 0
    THEN [dao |-> d, log_file |-> file, raised |-> NoError,
          suspended |-> FALSE, writer |-> w, elapsed |-> now - w.time_now]
    ELSE IF d.new_log_entries = <<>>
    THEN [dao |-> d, log_file |-> file, raised |-> IndexError,
          suspended |-> FALSE, writer |-> w, elapsed |-> elapsed]
    ELSE [dao |-> [d EXCEPT !.new_log_entries = Tail(@)],
          log_file |-> Append(file, Head(d.new_log_entries)),
          raised |-> NoError,
          suspended |-> TRUE,
          writer |-> [w EXCEPT !.remaining = @ - 1],
          elapsed |-> elapsed]

\* writers without its i-th call.
RemoveAt(list, i) ==
    SubSeq(list, 1, i - 1) \o SubSeq(list, i + 1, Len(list))

\* A flush_log call starts and is suspended at its first write.
StartFlush ==
    /\ Len(writers) < MaxWriters
    /\ LET r == flush_log_begin(dao, log_exists, log_file,
                                time_since_last_flush, clock_second)
       IN  /\ r.dao.current_total_entries <= MaxCounter
           /\ dao' = r.dao
           /\ log_exists' = r.log_exists
           /\ log_file' = r.log_file
           /\ raised' = r.raised
           /\ writers' = IF r.suspended THEN Append(writers, r.writer)
                         ELSE writers
    /\ last_call' = "flush_log"
    /\ UNCHANGED <<time_since_last_flush, appended, init_log, result, backups,
                   state_files, clock_second, logical_time>>

\* One of the suspended flush_log calls is resumed.
ResumeFlush ==
    /\ \E i \in DOMAIN writers :
          LET r == flush_log_resume(dao, log_file, time_since_last_flush,
                                    clock_second, writers[i])
          IN  /\ dao' = r.dao
              /\ log_file' = r.log_file
              /\ raised' = r.raised
              /\ time_since_last_flush' = r.elapsed
              /\ writers' = IF r.suspended
                            THEN [writers EXCEPT ![i] = r.writer]
                            ELSE RemoveAt(writers, i)
    /\ last_call' = "flush_log"
    /\ UNCHANGED <<log_exists, appended, init_log, result, backups,
                   state_files, clock_second, logical_time>>

NextInterleaved == AppendToLog \/ NextSecond \/ StartFlush \/ ResumeFlush

SpecInterleaved == InitRegistry /\ [][NextInterleaved]_vars

\* ---- Log writer: what the claims speak about ----

\* The scheduling the fairness conditions stand for: the clock advances and
\* flush_log is called again (on request, and by __exit__ at shutdown).
FairSpec == Spec /\ WF_vars(FlushLog) /\ WF_vars(Tick)

CapConfigured == dao.max_entries_total # None

Cap == Val(dao.max_entries_total)

\* Every line the live log should hold: the lines found at construction,
\* then the appended entries in arrival order.
AllEntries == init_log \o appended

IsPrefix(s, t) == Len(s) <= Len(t) /\ SubSeq(t, 1, Len(s)) = s

\* C1: with no max_entries_total, after a final flush_log the lines of the
\* live log file are exactly the appended entries, once each, in arrival
\* order (after the lines the file held at construction).
C1_FinalFlushLeavesAllEntriesInLog ==
    (~CapConfigured /\ last_call = "flush_log") => log_file = AllEntries

\* C3: with max_entries_total = N and a start from at most N lines, neither
\* the counter _current_total_entries nor the number of lines of the live
\* log file ever exceeds N.
C3_PersistedCountNeverExceedsCap ==
    (CapConfigured /\ Len(init_log) <= Cap)
        => (dao.current_total_entries <= Cap /\ Len(log_file) <= Cap)

C5_NoEntryMissingFromLogWhenRaised ==
    (raised = MaximumReachedError) => log_file = AllEntries

\* C5 as amended: when MaximumReachedError is raised nothing was written by
\* that call and no entry is dropped from memory: the live log file followed
\* by the buffer is exactly all entries in arrival order, and the buffer is
\* not empty (its entries, the one of the raising append included, are not
\* in the file).
C5_RaisedKeepsEntriesInBuffer ==
    (raised = MaximumReachedError)
        => (log_file \o dao.new_log_entries = AllEntries
            /\ dao.new_log_entries # <<>>)

\* C5 witness: an append raised MaximumReachedError after entries of this
\* session were written.
C5_Witness ==
    /\ last_call = "append_to_log" /\ raised = MaximumReachedError
    /\ Len(log_file) > Len(init_log)
    /\ Len(dao.new_log_entries) >= 1

\* C6 as claimed: with max_entries_total configured, count_log_lines()
\* never exceeds it.  Stated for the sessions that start from a log within
\* the cap.
C6_TotalNeverExceedsCap ==
    (CapConfigured /\ Len(init_log) <= Cap)
        => count_log_lines(dao, log_exists, log_file) <= Cap

\* C6 as amended: with max_entries_total configured and a start from at
\* most that many lines, count_log_lines() does not exceed it while the
\* persisted counter is below it; it exceeds it only once the counter has
\* reached the cap, by the entries that stay in the buffer.
C6_TotalWithinCapWhileCounterBelowCap ==
    (CapConfigured /\ Len(init_log) <= Cap /\ dao.current_total_entries < Cap)
        => count_log_lines(dao, log_exists, log_file) <= Cap

\* C6 witness: entries are buffered and persisted below the cap.
C6_Witness ==
    /\ CapConfigured /\ Len(init_log) <= Cap
    /\ dao.current_total_entries < Cap
    /\ Len(dao.new_log_entries) >= 1
    /\ Len(log_file) > Len(init_log)

\* C7: flush_log with a non-empty buffer while the persisted count is
\* already at or above max_entries_total raises MaximumReachedError and
\* leaves the log file, the buffer, the counter and the last-flush
\* timestamp unchanged.
C7_RefusedFlushWritesNothing ==
    [][(FlushLog /\ dao.new_log_entries # <<>> /\ CapConfigured
        /\ dao.current_total_entries >= Cap)
       => (raised' = MaximumReachedError
           /\ UNCHANGED <<dao, log_exists, log_file, time_since_last_flush>>)]_vars

\* C7 witness: an explicit flush_log was refused.
C7_Witness ==
    /\ last_call = "flush_log" /\ raised = MaximumReachedError
    /\ dao.new_log_entries # <<>>
    /\ dao.current_total_entries >= Cap

\* C8 as claimed: with max_entries_total configured, every entry enqueued
\* by append_to_log is eventually written to the log file.
C8_EveryEntryEventuallyWritten ==
    \A e \in 1..MaxAppends :
        (CapConfigured /\ \E i \in DOMAIN dao.new_log_entries :
                              dao.new_log_entries[i] = e)
            ~> (\E i \in DOMAIN log_file : log_file[i] = e)

\* C8 as amended: flush_log is refused only when the persisted counter has
\* reached max_entries_total, and from then on flushing is impossible: the
\* counter and the log file never change again and the buffer only grows,
\* so the entries in it are never written.
C8_FlushImpossibleOnceCounterAtCap ==
    [][/\ (raised' = MaximumReachedError)
            => (CapConfigured /\ dao.current_total_entries >= Cap)
       /\ (CapConfigured /\ dao.current_total_entries >= Cap)
            => (/\ log_file' = log_file
                /\ dao'.current_total_entries = dao.current_total_entries
                /\ IsPrefix(dao.new_log_entries, dao'.new_log_entries))]_vars

\* C8 witness: the cap was reached in this session and a later flush_log
\* of a non-empty buffer was refused.
C8_Witness ==
    /\ CapConfigured /\ Len(init_log) < Cap
    /\ dao.current_total_entries >= Cap
    /\ dao.new_log_entries # <<>>
    /\ last_call = "flush_log" /\ raised = MaximumReachedError
    /\ Len(log_file) = Cap

\* C9: a flush_log directly after a flush_log, with no append_to_log in
\* between, writes nothing and leaves the buffer, the counter and the
\* last-flush timestamp unchanged.
C9_SecondFlushChangesNothing ==
    [][(last_call = "flush_log" /\ FlushLog)
       => UNCHANGED <<dao, log_exists, log_file, time_since_last_flush>>]_vars

OnlyMaxEntriesInState ==
    /\ dao.max_entries_in_state # None
    /\ dao.flush_frequency = None
    /\ dao.max_entries_total = None

\* C10: with only max_entries_in_state = K, an append_to_log flushes exactly
\* when it brings the buffer length to K, the flush persists those K
\* entries and empties the buffer, and the buffer length is below K after
\* every append.
C10_AutoFlushExactlyAtKEntries ==
    [][(OnlyMaxEntriesInState /\ AppendToLog) =>
        LET buffered == Append(dao.new_log_entries, Len(appended) + 1)
            K == Val(dao.max_entries_in_state)
        IN  /\ IF Len(buffered) = K
               THEN /\ log_file' = log_file \o buffered
                    /\ dao'.new_log_entries = <<>>
               ELSE /\ log_file' = log_file
                    /\ dao'.new_log_entries = buffered
            /\ Len(dao'.new_log_entries) < K]_vars

NoFlushPolicy == dao.flush_frequency = None /\ dao.max_entries_in_state = None

\* C12: with neither flush_frequency nor max_entries_in_state configured,
\* an append_to_log that does not bring persisted + buffered to
\* max_entries_total only puts the entry into the buffer, and the live log
\* file changes only in a flush_log call and in an append_to_log that
\* brings persisted + buffered to max_entries_total.
C12_NoPolicyAppendLeavesLogAlone ==
    [][NoFlushPolicy =>
        LET buffered == Append(dao.new_log_entries, Len(appended) + 1)
            reached == CapConfigured
                /\ dao.current_total_entries + Len(buffered) >= Cap
        IN  /\ (AppendToLog /\ ~reached)
                  => (/\ log_file' = log_file /\ log_exists' = log_exists
                      /\ dao'.new_log_entries = buffered
                      /\ raised' = NoError)
            /\ (log_file' # log_file \/ log_exists' # log_exists)
                  => (FlushLog \/ (AppendToLog /\ reached))]_vars

\* C12 witness: two entries were appended without a flush policy and none
\* of them is in the live log file.
C12_Witness ==
    /\ NoFlushPolicy
    /\ last_call = "append_to_log" /\ raised = NoError
    /\ Len(dao.new_log_entries) >= 2
    /\ log_file = init_log

\* C13: writing the snapshot and loading it into a fresh registry gives
\* back the same clients with the same defined or undefined times and the
\* same global minimum, for every registry state.
C13_SnapshotRoundTrip ==
    [][Enter => (/\ dao'.client_times = dao.client_times
                 /\ dao'.curr_min_time = dao.curr_min_time)]_vars

\* ---- Log cut: what the claims speak about ----

MinTimeDefined == dao.curr_min_time # None

\* The position of the last line of log/log whose time is at or below the
\* global minimum, 0 when there is none.
LastSafePosition ==
    LET safe == {i \in DOMAIN log_file :
                    logical_time[log_file[i]] <= Val(dao.curr_min_time)}
    IN  IF safe = {} THEN 0 ELSE CHOOSE p \in safe : \A i \in safe : i <= p

\* C14: after cut_log returned a result, every entry of the backup file has
\* a time at or below the global minimum.
C14_BackupHoldsOnlySafeEntries ==
    (last_call = "cut_log" /\ raised = NoError /\ result # None)
        => /\ MinTimeDefined
           /\ \A i \in DOMAIN backups[result[3]] :
                 logical_time[backups[result[3]][i]] <= Val(dao.curr_min_time)

\* C15: on a log of n lines whose last line with a time at or below the
\* global minimum is at position p >= 1, cut_log writes a backup file of
\* exactly the first p lines and returns (n - p, n, the path of the backup).
C15_BackupIsFirstLinesUpToLastSafe ==
    [][(CutLog /\ log_exists /\ MinTimeDefined /\ dao.new_log_entries = <<>>
        /\ LastSafePosition >= 1)
       => LET n == Len(log_file)
              p == LastSafePosition
          IN  /\ raised' = NoError
              /\ result' # None
              /\ result'[1] = n - p /\ result'[2] = n
              /\ result'[3] \notin DOMAIN backups
              /\ backups'[result'[3]] = SubSeq(log_file, 1, p)]_vars

\* C16: when every line of the log has a time above the defined global
\* minimum, cut_log completes, the backup file is empty and lines_removed
\* equals original_length.
C16_AllLinesNewerGivesEmptyBackup ==
    [][(CutLog /\ log_exists /\ MinTimeDefined /\ dao.new_log_entries = <<>>
        /\ log_file # <<>> /\ LastSafePosition = 0)
       => /\ raised' = NoError
          /\ result' # None
          /\ result'[1] = Len(log_file) /\ result'[2] = Len(log_file)
          /\ backups'[result'[3]] = <<>>]_vars

\* C17: cut_log removes or alters no line of the live log file: apart from
\* the buffered entries its flush appends, log/log is the same after the
\* call, and the registry is unchanged.
C17_CutLeavesLiveLogAndRegistry ==
    [][CutLog =>
        /\ log_exists' = log_exists
        /\ log_file' \in {log_file, log_file \o dao.new_log_entries}
        /\ dao'.client_times = dao.client_times
        /\ dao'.curr_min_time = dao.curr_min_time]_vars

\* C17 witness: a cut_log flushed the buffer, removed lines from the backup
\* and left every line in the live log file.
C17_Witness ==
    /\ last_call = "cut_log" /\ raised = NoError /\ result # None
    /\ dao.max_entries_total = None
    /\ appended # <<>>
    /\ log_file = AllEntries
    /\ result[1] >= 1
    /\ Len(backups[result[3]]) < Len(log_file)

\* C20: every create_unique_log_file_path call returns a path that is not
\* on disk and was not returned before in the session, also when the name
\* of the current second is taken.
C20_UniquePathAlwaysReturned ==
    [][CreateUniqueLogFilePath =>
        /\ raised' = NoError
        /\ result' # None
        /\ result' \notin DOMAIN backups
        /\ ~InList(result', dao.unique_log_file_names)]_vars

\* ---- reset: what the claims speak about ----

\* C18: after reset() on a system with a live log file and snapshot files
\* of its clients, the content of the log is at a path that did not exist
\* before, no file is left at log/log, the file of the global minimum and
\* every client file are deleted, the registry and the buffer are empty and
\* get_client_time of every former client returns None.  Stated for the
\* calls made with an empty buffer, where reset has nothing to flush.
C18_ResetRotatesLogAndClearsState ==
    [][(Reset /\ log_exists /\ dao.new_log_entries = <<>>
        /\ dao.client_times # <<>>
        /\ DOMAIN dao.client_times \subseteq DOMAIN state_files
        /\ state_file_name \in DOMAIN state_files)
       => /\ raised' = NoError
          /\ ~log_exists'
          /\ \E path \in DOMAIN backups' \ DOMAIN backups :
                backups'[path] = log_file
          /\ state_files' = <<>>
          /\ dao'.client_times = <<>>
          /\ dao'.curr_min_time = None
          /\ dao'.new_log_entries = <<>>
          /\ \A identifier \in DOMAIN dao.client_times :
                get_client_time(dao', identifier).result = None]_vars

\* C19: after reset() the system behaves as on the first startup with the
\* same configuration.  Stated for the first call that follows: an
\* append_to_log made at any clock reading ends with the same exception,
\* the same live log file and the same count_log_lines() as on a new
\* instance over an empty log directory.
C19_AfterResetLikeFirstStartup ==
    (last_call = "reset" /\ raised = NoError) =>
        \A elapsed \in 0..MaxElapsed :
            LET log_entry == Len(appended) + 1
                first == NewDao(dao.flush_frequency, dao.max_entries_in_state,
                                dao.max_entries_total, FALSE, <<>>)
                here == append_to_log(dao, log_exists, log_file, elapsed,
                                      log_entry)
                there == append_to_log(first, FALSE, <<>>, elapsed, log_entry)
            IN  /\ here.raised = there.raised
                /\ here.log_exists = there.log_exists
                /\ here.log_file = there.log_file
                /\ count_log_lines(here.dao, here.log_exists, here.log_file)
                     = count_log_lines(there.dao, there.log_exists,
                                       there.log_file)

\* ---- Registry: what the claims speak about ----

\* C21: after set_client_time(id, t) the value is persisted: the snapshot
\* file of id holds t and the file of the global minimum holds the minimum
\* that was recomputed, so that a start of the server that loads the state
\* directory now recovers t for id.
C21_SetClientTimePersistsSnapshot ==
    [][SetClientTime =>
        \E identifier \in Clients, new_time \in Times :
            /\ dao' = set_client_time(dao, identifier, Some(new_time))
            /\ identifier \in DOMAIN state_files'
            /\ json_loads(state_files'[identifier]) = Some(new_time)
            /\ state_file_name \in DOMAIN state_files'
            /\ (identifier # state_file_name
                  => json_loads(state_files'[state_file_name])
                       = dao'.curr_min_time)
            /\ LET loaded == load_files(NewDao(None, None, None, log_exists,
                                               log_file),
                                        state_files', DOMAIN state_files')
               IN  identifier # state_file_name
                     => (/\ identifier \in DOMAIN loaded.client_times
                         /\ loaded.client_times[identifier] = Some(new_time))]_vars

\* C22: set_client_time(id, t) with t below the defined global minimum
\* makes t the global minimum, in every reachable registry state.
C22_SetBelowMinBecomesMin ==
    \A identifier \in Clients, new_time \in Times :
        (dao.curr_min_time # None /\ new_time < Val(dao.curr_min_time))
            => get_current_min_time(
                   set_client_time(dao, identifier, Some(new_time)))
                 = Some(new_time)

\* C23: set_client_time(id, t) on a client that does not hold the global
\* minimum, with t at or above the global minimum, leaves the global
\* minimum unchanged, in every reachable registry state.
C23_SetNonMinimalLeavesMin ==
    \A identifier \in Clients, new_time \in Times :
        (/\ dao.curr_min_time # None
         /\ new_time >= Val(dao.curr_min_time)
         /\ (identifier \in DOMAIN dao.client_times
               => dao.client_times[identifier] # dao.curr_min_time))
            => get_current_min_time(
                   set_client_time(dao, identifier, Some(new_time)))
                 = dao.curr_min_time

\* C29: get_client_time(id) changes neither the global minimum nor the
\* time of a known client: for a known id it changes nothing, for an unseen
\* id it returns None and only records id as not initialised.
C29_GetClientTimeOnlyRecordsUnseen ==
    \A identifier \in Clients :
        LET r == get_client_time(dao, identifier)
        IN  IF identifier \in DOMAIN dao.client_times
            THEN r.dao = dao /\ r.result = dao.client_times[identifier]
            ELSE /\ r.result = None
                 /\ r.dao = [dao EXCEPT !.client_times =
                                          dict_set(@, identifier, None)]

\* ---- No live log file: what the claims speak about ----

RegistryCleared(d) ==
    d.client_times = <<>> /\ d.curr_min_time = None /\ d.new_log_entries = <<>>

C25_NonPositiveArgumentsRejected ==
    dao = NoInstance =>
        \A ff \in Arguments(MaxFlushFrequency),
           mis \in Arguments(MaxEntriesInState),
           met \in Arguments(MaxEntriesTotal) :
            LET r == construct(dao, ff, mis, met, log_exists, log_file)
            IN  IF non_positive({ff, mis, met})
                THEN r.raised = ValueError /\ r.dao = NoInstance
                ELSE /\ r.raised = NoError
                     /\ r.dao # NoInstance
                     /\ r.dao.flush_frequency = ff
                     /\ r.dao.max_entries_in_state = mis
                     /\ r.dao.max_entries_total = met

\* C25 witness: a construction has failed and no instance is registered.
C25_Witness ==
    last_call = "__init__" /\ raised = ValueError /\ dao = NoInstance

\* C26: once a construction has succeeded, every later construction raises
\* ValueError and leaves the registered instance and its state unchanged.
C26_SecondConstructionRefused ==
    [][(Construct /\ dao # NoInstance)
       => (raised' = ValueError
           /\ UNCHANGED <<dao, log_exists, log_file, time_since_last_flush,
                          appended, backups, state_files>>)]_vars

\* C26 witness: a construction was refused while an instance with entries
\* in its buffer is registered.
C26_Witness ==
    /\ dao # NoInstance
    /\ last_call = "__init__" /\ raised = ValueError
    /\ dao.new_log_entries # <<>>

\* ---- Flush and counter: what the claims speak about ----

\* C27: a flush_log that completes with n > 0 buffered entries appends
\* exactly these entries to the live log file in buffer order, leaves the
\* buffer empty, adds n to the persisted counter and sets the last-flush
\* timestamp to the time of this flush.
C27_SuccessfulFlushWritesBuffer ==
    [][(FlushLog /\ dao.new_log_entries # <<>> /\ raised' = NoError)
       => /\ log_exists'
          /\ log_file' = log_file \o dao.new_log_entries
          /\ dao'.new_log_entries = <<>>
          /\ dao'.current_total_entries
               = dao.current_total_entries + Len(dao.new_log_entries)
          /\ time_since_last_flush' = 0]_vars

\* C27 witness: without flush policy and cap, a flush_log wrote the
\* appended entries, two or more.
C27_Witness ==
    /\ NoFlushPolicy /\ ~CapConfigured
    /\ last_call = "flush_log" /\ raised = NoError
    /\ Len(appended) >= 2
    /\ dao.new_log_entries = <<>>
    /\ log_file = AllEntries
    /\ time_since_last_flush = 0

\* C28: the persisted counter _current_total_entries equals the number of
\* lines of the live log file, so that the counter plus the buffer length
\* equals count_log_lines().  Stated for the states that a completed reset
\* leaves, where no flush of this call has stopped half-way.
C28_CounterIsLineCountOfLog ==
    (last_call = "reset" /\ raised = NoError) =>
        /\ dao.current_total_entries = (IF log_exists THEN Len(log_file) ELSE 0)
        /\ dao.current_total_entries + Len(dao.new_log_entries)
             = count_log_lines(dao, log_exists, log_file)

\* C30: once get_current_min_time() has returned m, no log entry created
\* later has a logical time below m, the wall clock never going back.
\* Stated for the events that arrive while the stored minimum is the minimum
\* of the defined client times.
C30_NoLaterEntryBelowReturnedMin ==
    [][(/\ LogEvent
        /\ result # None
        /\ get_current_min_time(dao) = MinDefinedTime(dao))
       => logical_time'[Len(appended')] >= Val(result)]_vars

\* C31: the outcome of flush_log (completion, the entries written, the
\* persisted counter, the buffer) is the same for every value of the time
\* elapsed since the previous flush, zero included.
C31_FlushOutcomeIndependentOfElapsed ==
    \A e1, e2 \in 0..MaxElapsed :
        LET r1 == flush_log(dao, log_exists, log_file, e1)
            r2 == flush_log(dao, log_exists, log_file, e2)
        IN  /\ r1.raised = r2.raised
            /\ r1.log_exists = r2.log_exists
            /\ r1.log_file = r2.log_file
            /\ r1.dao = r2.dao

\* C32: when the live log file exists and cut_log returns a result, the
\* buffer is empty afterwards, the buffered entries have been written behind
\* the lines of the log, and original_length counts the lines of the log and
\* the entries that were buffered.
C32_CutFlushesBeforeCopy ==
    [][(CutLog /\ log_exists /\ raised' = NoError /\ result' # None)
       => /\ dao'.new_log_entries = <<>>
          /\ log_file' = log_file \o dao.new_log_entries
          /\ result'[2] = Len(log_file) + Len(dao.new_log_entries)]_vars

\* A cut has returned a result after it wrote an entry that was buffered.
C32_Witness ==
    /\ last_call = "cut_log" /\ raised = NoError /\ result # None
    /\ Len(appended) >= 1
    /\ dao.new_log_entries = <<>>
    /\ log_file = init_log \o appended
    /\ result[2] = Len(init_log) + Len(appended)

\* C33: once reset has returned, the lines of the live log and the entries
\* that were buffered, in this order, are the content of the rotated log
\* file, and no other backup file has changed.
C33_ResetDropsNoEntry ==
    [][(/\ Reset /\ raised' = NoError
        /\ (log_exists \/ dao.new_log_entries # <<>>))
       => /\ dao'.new_log_entries = <<>>
          /\ \E name \in DOMAIN backups' \ DOMAIN backups :
                backups'[name] = log_file \o dao.new_log_entries
          /\ \A name \in DOMAIN backups : backups'[name] = backups[name]]_vars

\* A reset has returned after it moved a buffered entry into the rotated
\* log file.
C33_Witness ==
    /\ last_call = "reset" /\ raised = NoError
    /\ Len(appended) >= 1
    /\ dao.new_log_entries = <<>>
    /\ ~log_exists
    /\ \E name \in DOMAIN backups : backups[name] = init_log \o appended

\* C34: after __exit__ has completed, the file of the global minimum and the
\* file of every client hold the registry's current values, the buffer is
\* empty and every appended entry is in the live log file.  Stated for the
\* exits of a registry whose stored minimum is the minimum of the defined
\* client times.
C34_ExitSavesRegistryAndLog ==
    [][(/\ Exit /\ raised' = NoError
        /\ get_current_min_time(dao) = MinDefinedTime(dao))
       => /\ state_file_name \in DOMAIN state_files'
          /\ json_loads(state_files'[state_file_name]) = dao.curr_min_time
          /\ \A identifier \in DOMAIN dao.client_times :
                /\ identifier \in DOMAIN state_files'
                /\ json_loads(state_files'[identifier])
                     = dao.client_times[identifier]
          /\ dao'.new_log_entries = <<>>
          /\ log_file' = AllEntries]_vars

CapacityOrCompletion == {NoError, MaximumReachedError}

\* C35: in every reachable state with a defined global minimum, each of
\* append_to_log, flush_log, cut_log and reset, called now, runs to
\* completion or raises MaximumReachedError.
C35_OnlyCapacityFailures ==
    MinTimeDefined =>
        /\ append_to_log(dao, log_exists, log_file, time_since_last_flush,
                         Len(appended) + 1).raised \in CapacityOrCompletion
        /\ flush_log(dao, log_exists, log_file,
                     time_since_last_flush).raised \in CapacityOrCompletion
        /\ cut_log(dao, log_exists, log_file, backups, time_since_last_flush,
                   clock_second, logical_time).raised \in CapacityOrCompletion
        /\ reset(dao, log_exists, log_file, backups, state_files,
                 time_since_last_flush, clock_second).raised
              \in CapacityOrCompletion

\* C36: when append_to_log and flush_log run while a flush_log is suspended
\* in its write loop, no flush fails because another flush drained the
\* buffer, and the lines of the live log file followed by the buffer are the
\* appended entries, once each and in append order.
C36_InterleavedFlushesKeepOrder ==
    /\ raised # IndexError
    /\ log_file \o dao.new_log_entries = AllEntries

\* C37: saving the snapshot stores every client's time in a file of its
\* own, distinct from the file of the global minimum: the state directory
\* holds one file more than the registry has clients, and a load of it
\* takes the minimum that was saved for the global minimum and finds every
\* client.
C37_ClientFilesApartFromMinimumFile ==
    [][Exit =>
        LET loaded == load_files(NewDao(None, None, None, log_exists',
                                        log_file'),
                                 state_files', DOMAIN state_files')
        IN  /\ Cardinality(DOMAIN state_files')
                 = Cardinality(DOMAIN dao.client_times) + 1
            /\ loaded.curr_min_time = dao.curr_min_time
            /\ DOMAIN loaded.client_times = DOMAIN dao.client_times]_vars

\* C38: cut_log returns the empty result, and cut_log_io answers "Log is
\* empty", only when count_log_lines() is 0.  Stated for the calls that
\* follow a call that raised nothing.
C38_EmptyResultOnlyForEmptyCore ==
    [][(/\ CutLog /\ raised = NoError /\ raised' = NoError
        /\ result' = None
        /\ cut_log_io(result') = "Log is empty")
       => count_log_lines(dao, log_exists, log_file) = 0]_vars

====
